---------------------------- MODULE Spec2Model ----------------------------
(***************************************************************************)
(* SHR3 three-shift-register random bit generator (crate shr3).            *)
(*                                                                         *)
(* A machine integer of width W is modelled by its bit pattern: the set of *)
(* the positions (0 = least significant) of its set bits.  Rust's u32,     *)
(* i64, Wrapping<u128>, ... do not fit the model checker's integers, and   *)
(* the code is defined on bit patterns anyway (shifts, xor, or, `as`       *)
(* casts, wrapping arithmetic).                                            *)
(***************************************************************************)
EXTENDS Integers, FiniteSets, Sequences, TLC

VARIABLES
    state,      \* Shr3.state: the 32-bit register
    cfg,        \* the build: debug_assertions, target_arch, pointer width
    ctor,       \* how the instance was constructed, and from which seed
    steps,      \* number of shr3() rounds applied since construction
    calls,      \* number of Shr3Ops calls made since construction
    call,       \* the last Shr3Ops call: operation, type T, arguments
    pre,        \* the register when the last call was entered
    ret,        \* how the last call ended: value, panicked, draws
    jump        \* the rounds gone through since construction, taken as one
                \* map: their number n (a bit pattern, it exceeds 2^31) and
                \* the register m[i] they lead to from the one-bit seed {i}

vars == <<state, cfg, ctor, steps, calls, call, pre, ret, jump>>

---------------------------------------------------------------------------
(* Bit patterns *)

\* The bit pattern of a non-negative integer literal below 2^31.
Word(n) == {i \in 0..30 : (n \div (2 ^ i)) % 2 = 1}

\* The number a bit pattern of at most 30 bits stands for (unsigned).
RECURSIVE Val(_)
Val(x) == IF x = {} THEN 0
          ELSE LET i == CHOOSE j \in x : TRUE IN (2 ^ i) + Val({j \in x : j # i})

Mask(W) == 0..(W - 1)

\* x << k, x >> k, x ^ y, x | y, x & y on patterns of width W.  Each is
\* written as a comprehension so that a long chain of rounds stays a plain
\* enumerated set.
Shl(x, k, W) == {i + k : i \in {j \in x : j + k < W}}
Shr(x, k)    == {i - k : i \in {j \in x : j >= k}}
Xor(x, y)    == {i \in x \cup y : (i \in x) # (i \in y)}
Or(x, y)     == {i \in x \cup y : TRUE}
And(x, y)    == {i \in x : i \in y}

\* A 32-bit literal 0xHHHHLLLL from its two 16-bit halves.
Hex32(hi, lo) == Or(Word(lo), Shl(Word(hi), 16, 32))

Max(S) == CHOOSE m \in S : \A k \in S : k <= m

---------------------------------------------------------------------------
(* The transition function *)

\* `state ^= state << k` and `state ^= state >> k` on a u32
xor_shl(s, k) == Xor(s, Shl(s, k, 32))
xor_shr(s, k) == Xor(s, Shr(s, k))

\* The three steps with the two left shifts exchanged.
generic_shr3_5_17_13(s) == xor_shl(xor_shr(xor_shl(s, 5), 17), 13)

\* The three steps with 17, 13 and 5: the variant that has no full cycle.
generic_shr3_17_13_5(s) == xor_shl(xor_shr(xor_shl(s, 17), 13), 5)

\* arch::generic::shr3
generic_shr3(s) == xor_shl(xor_shr(xor_shl(s, 13), 17), 5)

\* One AVR register holds a byte, a pattern within 0..7.  mul rd, rr leaves
\* the 16-bit product in r1:r0; eor/or are bitwise; lsr shifts right into
\* carry; ror rotates right through carry.
Byte(n) == {i \in 0..7 : (n \div (2 ^ i)) % 2 = 1}
ByteVal(x) ==
    (IF 0 \in x THEN 1 ELSE 0) + (IF 1 \in x THEN 2 ELSE 0) + (IF 2 \in x THEN 4 ELSE 0)
    + (IF 3 \in x THEN 8 ELSE 0) + (IF 4 \in x THEN 16 ELSE 0) + (IF 5 \in x THEN 32 ELSE 0)
    + (IF 6 \in x THEN 64 ELSE 0) + (IF 7 \in x THEN 128 ELSE 0)
avr_mul(rd, rr) == [r0 |-> Byte((ByteVal(rd) * ByteVal(rr)) % 256),
                    r1 |-> Byte((ByteVal(rd) * ByteVal(rr)) \div 256)]
avr_eor(rd, rr) == Xor(rd, rr)
avr_or(rd, rr)  == Or(rd, rr)
avr_lsr(rd)     == [r |-> Shr(rd, 1), c |-> 0 \in rd]
avr_ror_no_carry(rd, c) == [r |-> Shr(rd, 1), c |-> 0 \in rd]
avr_ror(rd, c)  == [r |-> Or(Shr(rd, 1), IF c THEN {7} ELSE {}), c |-> 0 \in rd]

\* ldi fac, 32
avr_fac == Byte(32)

\* The asm block works on the bytes a = ab:l, b = ab:h, c = cd:l, d = cd:h of
\* the state; y is the record of the four.
\*
\* "y ^= y << 13", given the products mc = c * fac, mb = b * fac, ma = a * fac
\* as mul leaves them in r1:r0:
\*   mov tcd:l, r0 (mc); mov tab:h, r0 (mb); or tcd:l, r1 (mb);
\*   or tab:h, r1 (ma); eor ab:h, r0 (ma); eor cd:l, tab:h; eor cd:h, tcd:l
avr_shl13_regs(y, mc, mb, ma) ==
    [a |-> y.a,
     b |-> avr_eor(y.b, ma.r0),
     c |-> avr_eor(y.c, avr_or(mb.r0, ma.r1)),
     d |-> avr_eor(y.d, avr_or(mc.r0, mb.r1))]
avr_shl13(y) ==
    avr_shl13_regs(y, avr_mul(y.c, avr_fac), avr_mul(y.b, avr_fac), avr_mul(y.a, avr_fac))

\* "y ^= y >> 17", given l = the outcome of lsr tcd:h on the copy of d:
\*   ror tcd:l; eor ab:l, tcd:l; eor ab:h, tcd:h
avr_shr17_regs(y, l) ==
    [a |-> avr_eor(y.a, avr_ror(y.c, l.c).r),
     b |-> avr_eor(y.b, l.r),
     c |-> y.c,
     d |-> y.d]
avr_shr17(y) == avr_shr17_regs(y, avr_lsr(y.d))

\* "y ^= y << 5", given the products md, mc, mb, ma of d, c, b, a with fac:
\*   mov tcd:h, r0 (md); mov tcd:l, r0 (mc); or tcd:h, r1 (mc);
\*   mov tab:h, r0 (mb); or tcd:l, r1 (mb); or tab:h, r1 (ma);
\*   eor ab:l, r0 (ma); eor ab:h, tab:h; eor cd:l, tcd:l; eor cd:h, tcd:h
avr_shl5_regs(y, md, mc, mb, ma) ==
    [a |-> avr_eor(y.a, ma.r0),
     b |-> avr_eor(y.b, avr_or(mb.r0, ma.r1)),
     c |-> avr_eor(y.c, avr_or(mc.r0, mb.r1)),
     d |-> avr_eor(y.d, avr_or(md.r0, mc.r1))]
avr_shl5(y) ==
    avr_shl5_regs(y, avr_mul(y.d, avr_fac), avr_mul(y.c, avr_fac),
                     avr_mul(y.b, avr_fac), avr_mul(y.a, avr_fac))

\* ab = state as u16, cd = (state >> 16) as u16, split in register pairs
avr_split(s) ==
    [a |-> And(s, Mask(8)),
     b |-> Shr(And(s, Mask(16)), 8),
     c |-> And(Shr(s, 16), Mask(8)),
     d |-> Shr(Shr(s, 16), 8)]

\* (ab as u32) | ((cd as u32) << 16)
avr_join(y) ==
    Or(Or(y.a, Shl(y.b, 8, 16)), Shl(Or(y.c, Shl(y.d, 8, 16)), 16, 32))

\* arch::avr::shr3
avr_shr3(s) == avr_join(avr_shl5(avr_shr17(avr_shl13(avr_split(s)))))

\* shr3: the build-time dispatch on target_arch
shr3(arch, s) == IF arch = "avr" THEN avr_shr3(s) ELSE generic_shr3(s)

---------------------------------------------------------------------------
(* The numeric trait layer: BaseOps for every output type T *)

Unsigned == {"u8", "u16", "u32", "u64", "usize", "u128"}
Signed   == {"i8", "i16", "i32", "i64", "isize", "i128"}

\* The types BaseOps is implemented for in a build (impl_base_ops!).
Types(c) == {"u8", "i8", "u16", "i16", "u32", "i32", "u64", "i64", "usize", "isize"}
            \cup (IF c.has_u128 THEN {"u128", "i128"} ELSE {})

\* BaseOps::NUMBITS = <T>::BITS
NUMBITS(c, T) ==
    CASE T \in {"u8", "i8"}       -> 8
      [] T \in {"u16", "i16"}     -> 16
      [] T \in {"u32", "i32"}     -> 32
      [] T \in {"u64", "i64"}     -> 64
      [] T \in {"u128", "i128"}   -> 128
      [] T \in {"usize", "isize"} -> c.ptr

\* BaseOps::MINVAL, BaseOps::MAXVAL
MINVAL(c, T) == IF T \in Signed THEN {NUMBITS(c, T) - 1} ELSE {}
MAXVAL(c, T) == IF T \in Signed THEN Mask(NUMBITS(c, T) - 1) ELSE Mask(NUMBITS(c, T))

\* The u8 literals 0 and 1
U8_0 == {}
U8_1 == {0}

\* BaseOps::from_u8: `v as T` of a u8 pattern v
from_u8(c, T, v) == And(v, Mask(NUMBITS(c, T)))

\* BaseOps::to_unsigned / from_unsigned: the bit-identical Wrapping<T::U>
to_unsigned(c, T, v)   == And(v, Mask(NUMBITS(c, T)))
from_unsigned(c, T, v) == And(v, Mask(NUMBITS(c, T)))

\* <T::U>::leading_zeros and BaseOps::fls on a pattern of width W
leading_zeros(W, x) == IF x = {} THEN W ELSE W - 1 - Max(x)
\* fls reporting the whole width for every value but zero.
fls_whole_width(W, x) == IF x = {} THEN 0 ELSE W

\* fls that never reports fewer than one bit.
fls_at_least_1(W, x) == IF x = {} THEN 1 ELSE W - leading_zeros(W, x)
fls(W, x) == W - leading_zeros(W, x)

\* Wrapping<U> addition: the sum bits lo..hi-1 of x + y + carry and the
\* carry out of bit hi-1, by ripple carry (the range is split in halves).
RECURSIVE AddBits(_, _, _, _, _)
AddBits(x, y, lo, hi, carry) ==
    IF hi - lo = 1
    THEN LET n == (IF lo \in x THEN 1 ELSE 0) + (IF lo \in y THEN 1 ELSE 0) + carry
         IN  [sum |-> IF n % 2 = 1 THEN {lo} ELSE {}, carry |-> n \div 2]
    ELSE LET mid == (lo + hi) \div 2
             L   == AddBits(x, y, lo, mid, carry)
             H   == AddBits(x, y, mid, hi, L.carry)
         IN  [sum |-> L.sum \cup H.sum, carry |-> H.carry]

\* The carry out of the top bit is dropped.
wrapping_add(W, x, y) == And(Mask(W), AddBits(x, y, 0, W, 0).sum)
\* x - y = x + ~y + 1 (mod 2^W)
wrapping_sub(W, x, y) == And(Mask(W), AddBits(x, {i \in Mask(W) : i \notin y}, 0, W, 1).sum)

\* PartialOrd of Wrapping<U>: unsigned comparison of two patterns
ULt(x, y) == x # y /\ Max(Xor(x, y)) \in y
ULe(x, y) == x = y \/ ULt(x, y)

\* PartialOrd of T: unsigned for u*, two's complement for i*
Lt(c, T, x, y) ==
    IF T \in Signed
    THEN LET sb == {NUMBITS(c, T) - 1} IN ULt(Xor(x, sb), Xor(y, sb))
    ELSE ULt(x, y)
Le(c, T, x, y) == x = y \/ Lt(c, T, x, y)

\* T's own `-` (Sub for the primitive integer): wrapping where overflow
\* checks are off.  get_range only reaches it with overflow in a build
\* without debug assertions.
T_sub(c, T, x, y) == wrapping_sub(NUMBITS(c, T), x, y)

\* An integer literal n (|n| < 2^30) as a pattern of T: n mod 2^NUMBITS
Lit(c, T, n) ==
    LET W == NUMBITS(c, T)
    IN  IF n >= 0 THEN And(Word(n), Mask(W)) ELSE {i \in Mask(W) : i \notin Word(-n - 1)}

---------------------------------------------------------------------------
(* The bit extraction engine and the range mapper *)

\* A call that hit a failed debug assertion (or overflow check): it unwinds
\* before touching the register and returns nothing.
Panic(s) == [state |-> s, value |-> {}, panicked |-> TRUE, draws |-> 0, bits |-> 0]

\* One round of get_bits' `for _ in 0..bitcount` loop; r holds self.state,
\* ret and the number i of rounds done.
\* The round taking bit 1 of the register instead of bit 0.
get_bits_or_bit1(c, T, r) ==
    [r EXCEPT !.ret = Or(@, to_unsigned(c, T, from_u8(c, T, Shr(And(r.state, {1}), 1))))]

\*   ret |= T::from_u8(self.state as u8 & 1).to_unsigned()
get_bits_or_lsb(c, T, r) ==
    [r EXCEPT !.ret = Or(@, to_unsigned(c, T, from_u8(c, T, And(And(r.state, Mask(8)), U8_1))))]
\* A round that leaves out `ret <<= 1`.
get_bits_round_no_shift(c, T, r) ==
    get_bits_or_lsb(c, T, [state |-> shr3(c.arch, r.state), ret |-> r.ret, i |-> r.i + 1])

\* A round that leaves the register where it is.
get_bits_round_stuck(c, T, r) ==
    get_bits_or_lsb(c, T, [state |-> r.state, ret |-> Shl(r.ret, 1, NUMBITS(c, T)), i |-> r.i + 1])

\*   self.state = shr3(self.state); ret <<= 1
get_bits_round(c, T, r) ==
    get_bits_or_lsb(c, T, [state |-> shr3(c.arch, r.state),
                           ret   |-> Shl(r.ret, 1, NUMBITS(c, T)),
                           i     |-> r.i + 1])

\* The rounds r.i .. n-1 of the loop, split in halves.
RECURSIVE get_bits_for(_, _, _, _)
get_bits_for(c, T, r, n) ==
    IF r.i >= n THEN r
    ELSE IF n - r.i = 1 THEN get_bits_round(c, T, r)
    ELSE get_bits_for(c, T, get_bits_for(c, T, r, r.i + ((n - r.i) \div 2)), n)

\* ret.from_unsigned(): what get_bits returns after the loop ended as r
get_bits_ret(c, T, bitcount, r) ==
    [state |-> r.state, value |-> from_unsigned(c, T, r.ret),
     panicked |-> FALSE, draws |-> 0, bits |-> bitcount]

\* <Shr3 as Shr3Ops<T>>::get_bits
get_bits(c, T, s, bitcount) ==
    IF c.debug /\ ~(bitcount <= NUMBITS(c, T)) THEN Panic(s)
    ELSE get_bits_ret(c, T, bitcount,
             get_bits_for(c, T, [state |-> s,
                                 ret   |-> to_unsigned(c, T, from_u8(c, T, U8_0)),
                                 i     |-> 0], bitcount))

\* Shr3Ops::get
get(c, T, s) == get_bits(c, T, s, NUMBITS(c, T))

\* The rejection loop of get_minmax: draw until value <= range.  minmax_try
\* is one pass of the loop body on the outcome g of get_bits.
RECURSIVE minmax_loop(_, _, _, _, _, _)
\* `if value <= range`, g being the draw get_bits(num_bits)
minmax_accepts(c, T, range, g) == ULe(to_unsigned(c, T, g.value), range)

\* A pass that accepts every draw.
minmax_try_accept_all(c, T, range, num_bits, draws, g) ==
    IF g.panicked THEN g
    ELSE [state |-> g.state, value |-> to_unsigned(c, T, g.value), panicked |-> FALSE,
          draws |-> draws + 1, bits |-> (draws + 1) * num_bits]
\* A pass that brings a candidate above the range into it by subtracting
\* range + 1, and draws no further.
minmax_try_reduce(c, T, range, num_bits, draws, g) ==
    IF g.panicked THEN g
    ELSE [state |-> g.state,
          value |-> IF ULe(to_unsigned(c, T, g.value), range)
                    THEN to_unsigned(c, T, g.value)
                    ELSE wrapping_sub(NUMBITS(c, T), to_unsigned(c, T, g.value),
                                      wrapping_add(NUMBITS(c, T), range, {0})),
          panicked |-> FALSE, draws |-> draws + 1, bits |-> (draws + 1) * num_bits]
minmax_try(c, T, range, num_bits, draws, g) ==
    IF g.panicked THEN g
    ELSE IF minmax_accepts(c, T, range, g)
    THEN [state |-> g.state, value |-> to_unsigned(c, T, g.value), panicked |-> FALSE,
          draws |-> draws + 1, bits |-> (draws + 1) * num_bits]
    ELSE minmax_loop(c, T, g.state, range, num_bits, draws + 1)
minmax_loop(c, T, s, range, num_bits, draws) ==
    minmax_try(c, T, range, num_bits, draws, get_bits(c, T, s, num_bits))

\* T::from_unsigned(value + min_value.to_unsigned()), r being how the loop ended
minmax_ret(c, T, min_value, r) ==
    [r EXCEPT !.value = from_unsigned(c, T,
                   wrapping_add(NUMBITS(c, T), @, to_unsigned(c, T, min_value)))]

\* get_minmax from `let num_bits = T::fls(range)` on
minmax_range(c, T, s, min_value, range) ==
    minmax_ret(c, T, min_value, minmax_loop(c, T, s, range, fls(NUMBITS(c, T), range), 0))

\* The same, the first get_bits(num_bits) of the loop having returned the
\* candidate `first`: g is that draw, the register moved on as the draw
\* moves it.
minmax_given_draw(c, T, min_value, range, g, first) ==
    minmax_ret(c, T, min_value,
               minmax_try(c, T, range, fls(NUMBITS(c, T), range), 0,
                          [g EXCEPT !.value = from_unsigned(c, T, first)]))
minmax_given(c, T, s, min_value, range, first) ==
    minmax_given_draw(c, T, min_value, range,
                      get_bits(c, T, s, fls(NUMBITS(c, T), range)), first)
get_minmax_given(c, T, s, min_value, max_value, first) ==
    IF c.debug /\ ~Le(c, T, min_value, max_value) THEN Panic(s)
    ELSE minmax_given(c, T, s, min_value,
             wrapping_sub(NUMBITS(c, T), to_unsigned(c, T, max_value),
                                         to_unsigned(c, T, min_value)), first)

\* get_minmax without its debug_assert!.
get_minmax_no_assert(c, T, s, min_value, max_value) ==
    minmax_range(c, T, s, min_value,
                 wrapping_sub(NUMBITS(c, T), to_unsigned(c, T, max_value),
                              to_unsigned(c, T, min_value)))

\* Shr3Ops::get_minmax
get_minmax(c, T, s, min_value, max_value) ==
    IF c.debug /\ ~Le(c, T, min_value, max_value) THEN Panic(s)
    ELSE minmax_range(c, T, s, min_value,
             wrapping_sub(NUMBITS(c, T), to_unsigned(c, T, max_value),
                                         to_unsigned(c, T, min_value)))

\* Shr3Ops::get_max
get_max(c, T, s, max_value) == get_minmax(c, T, s, MINVAL(c, T), max_value)

\* core::ops::Bound<T>
Included(x) == [kind |-> "Included", x |-> x]
Excluded(x) == [kind |-> "Excluded", x |-> x]
Unbounded   == [kind |-> "Unbounded", x |-> {}]

\* get_range's `match range.start_bound()`
range_min(c, T, start) ==
    IF start.kind = "Included" THEN start.x ELSE MINVAL(c, T)

\* The match taking an excluded end bound as it is, without `- 1`.
range_max_no_sub(c, T, end) ==
    CASE end.kind = "Included"  -> [panicked |-> FALSE, x |-> end.x]
      [] end.kind = "Unbounded" -> [panicked |-> FALSE, x |-> MAXVAL(c, T)]
      [] end.kind = "Excluded"  ->
            IF (c.debug \/ c.overflow_checks) /\ ~Lt(c, T, MINVAL(c, T), end.x)
            THEN [panicked |-> TRUE, x |-> {}]
            ELSE [panicked |-> FALSE, x |-> end.x]

\* get_range's `match range.end_bound()`: the inclusive maximum, or a panic
range_max(c, T, end) ==
    CASE end.kind = "Included"  -> [panicked |-> FALSE, x |-> end.x]
      [] end.kind = "Unbounded" -> [panicked |-> FALSE, x |-> MAXVAL(c, T)]
      [] end.kind = "Excluded"  ->
            IF (c.debug \/ c.overflow_checks) /\ ~Lt(c, T, MINVAL(c, T), end.x)
            THEN [panicked |-> TRUE, x |-> {}]
            ELSE [panicked |-> FALSE, x |-> T_sub(c, T, end.x, from_u8(c, T, U8_1))]

\* get_range from `self.get_minmax(min_value, max_value)` on, max being
\* the outcome of the match on the end bound
range_minmax(c, T, s, min, max) ==
    IF max.panicked THEN Panic(s) ELSE get_minmax(c, T, s, min, max.x)

\* Shr3Ops::get_range
get_range(c, T, s, start, end) ==
    range_minmax(c, T, s, range_min(c, T, start), range_max(c, T, end))

---------------------------------------------------------------------------
(* Construction *)

\* new_state without the replacement of a zero seed.
new_state_keep_zero(seed) == seed

\* Shr3::new_state
new_state(seed) == IF seed = Word(0) THEN Hex32(32767, 65535) ELSE seed

\* new seeded with zero instead of one.
new_seed_zero == new_state(Word(0))

\* Shr3::new
new == new_state(Word(1))

\* <Shr3 as Default>::default
default == new

---------------------------------------------------------------------------
(* Bounds and inputs *)

\* Calls made on one generator instance.
MaxCalls == 1

\* The builds of the portable code: cargo's dev profile on a 64-bit target,
\* the release profile on a 32-bit target, and a profile without debug
\* assertions but with overflow checks, on a 16-bit target whose compiler has
\* no u128.
Builds ==
    { [debug |-> TRUE,  overflow_checks |-> TRUE,  arch |-> "generic", ptr |-> 64, has_u128 |-> TRUE],
      [debug |-> FALSE, overflow_checks |-> FALSE, arch |-> "generic", ptr |-> 32, has_u128 |-> TRUE],
      [debug |-> FALSE, overflow_checks |-> TRUE,  arch |-> "generic", ptr |-> 16, has_u128 |-> FALSE] }

\* The release build for target_arch = "avr" (16-bit pointers).
AvrBuild ==
    [debug |-> FALSE, overflow_checks |-> FALSE, arch |-> "avr", ptr |-> 16, has_u128 |-> TRUE]

\* The constructor calls an instance starts from.
Ctors ==
    { [fn |-> "new", seed |-> Word(1)], [fn |-> "default", seed |-> Word(1)],
      [fn |-> "new_state", seed |-> Word(0)], [fn |-> "new_state", seed |-> Word(42)] }

construct(k) ==
    CASE k.fn = "new"       -> new
      [] k.fn = "default"   -> default
      [] k.fn = "new_state" -> new_state(k.seed)

NoCall == [op |-> "none", T |-> "u8", bitcount |-> 0, min |-> {}, max |-> {},
           start |-> Unbounded, end |-> Unbounded, first |-> {}]
NoRet  == [value |-> {}, panicked |-> FALSE, draws |-> 0]

\* No rounds taken as one map.
NoJump == [n |-> {}, m |-> <<>>]

\* Argument values per type: a low and a high bound (crossing zero for the
\* signed types), a single value, and a value 15 below the maximum.
Lo(c, T)  == IF T \in Signed
             THEN (IF NUMBITS(c, T) = 8 THEN Lit(c, T, -100) ELSE Lit(c, T, -170))
             ELSE Lit(c, T, 60)
Hi(c, T)  == IF T \in Signed THEN Lit(c, T, 60) ELSE Lit(c, T, 170)
Mid(c, T) == IF T \in Signed THEN Lit(c, T, -111) ELSE Lit(c, T, 111)
Top(c, T) == {i \in MAXVAL(c, T) : i >= 4}

BitCounts(c, T) == {0, 5, NUMBITS(c, T) - 1, NUMBITS(c, T) + 1}

MinmaxPairs(c, T) ==
    { <<Lo(c, T), Hi(c, T)>>, <<Mid(c, T), Mid(c, T)>>, <<MINVAL(c, T), MAXVAL(c, T)>>,
      <<Top(c, T), MAXVAL(c, T)>>, <<Hi(c, T), Lo(c, T)>> }

MaxVals(c, T) == {Lit(c, T, 100), Lit(c, T, 0)}

Ranges(c, T) ==
    { <<Included(Lo(c, T)), Excluded(Hi(c, T))>>,
      <<Included(Lo(c, T)), Included(Hi(c, T))>>,
      <<Unbounded, Excluded(Hi(c, T))>>,
      <<Unbounded, Included(Hi(c, T))>>,
      <<Included(Top(c, T)), Unbounded>>,
      <<Unbounded, Unbounded>>,
      <<Included(Mid(c, T)), Excluded(wrapping_add(NUMBITS(c, T), Mid(c, T), {0}))>>,
      <<Included(Mid(c, T)), Included(Mid(c, T))>>,
      <<Excluded(Lo(c, T)), Excluded(Hi(c, T))>>,
      <<Excluded(Lo(c, T)), Included(Hi(c, T))>>,
      <<Included(Lo(c, T)), Excluded(Lo(c, T))>>,
      <<Unbounded, Excluded(MINVAL(c, T))>> }

---------------------------------------------------------------------------
(* The generator as a state machine *)

Init ==
    /\ cfg \in Builds
    /\ ctor \in Ctors
    /\ state = construct(ctor)
    /\ steps = 0
    /\ calls = 0
    /\ call = NoCall
    /\ pre = state
    /\ ret = NoRet
    /\ jump = NoJump

\* A call `what` that ended as r: the register, the counters and the record
\* of the call.  A panicked call leaves no usable instance behind.
Returned(what, r) ==
    /\ state' = r.state
    /\ pre' = state
    /\ steps' = steps + r.bits
    /\ calls' = calls + 1
    /\ call' = what
    /\ ret' = [value |-> r.value, panicked |-> r.panicked, draws |-> r.draws]
    /\ UNCHANGED <<cfg, ctor>>

Finish(what, r) == Returned(what, r) /\ UNCHANGED jump

GetBits(T, bitcount) ==
    /\ ~ret.panicked
    /\ Finish([NoCall EXCEPT !.op = "get_bits", !.T = T, !.bitcount = bitcount],
              get_bits(cfg, T, state, bitcount))

Get(T) ==
    /\ ~ret.panicked
    /\ Finish([NoCall EXCEPT !.op = "get", !.T = T], get(cfg, T, state))

GetMinmax(T, min_value, max_value) ==
    /\ ~ret.panicked
    /\ Finish([NoCall EXCEPT !.op = "get_minmax", !.T = T, !.min = min_value, !.max = max_value],
              get_minmax(cfg, T, state, min_value, max_value))

GetMax(T, max_value) ==
    /\ ~ret.panicked
    /\ Finish([NoCall EXCEPT !.op = "get_max", !.T = T, !.max = max_value],
              get_max(cfg, T, state, max_value))

GetRange(T, start, end) ==
    /\ ~ret.panicked
    /\ Finish([NoCall EXCEPT !.op = "get_range", !.T = T, !.start = start, !.end = end],
              get_range(cfg, T, state, start, end))

\* One instance takes at most MaxCalls calls, all of one output type T.
CanCall(T) == calls < MaxCalls /\ (IF call.op = "none" THEN TRUE ELSE call.T = T)

DoGetBits ==
    \E T \in Types(cfg) : CanCall(T) /\ \E n \in BitCounts(cfg, T) : GetBits(T, n)
DoGet ==
    \E T \in Types(cfg) : CanCall(T) /\ Get(T)
DoGetMinmax ==
    \E T \in Types(cfg) : CanCall(T) /\ \E p \in MinmaxPairs(cfg, T) : GetMinmax(T, p[1], p[2])
DoGetMax ==
    \E T \in Types(cfg) : CanCall(T) /\ \E m \in MaxVals(cfg, T) : GetMax(T, m)
DoGetRange ==
    \E T \in Types(cfg) : CanCall(T) /\ \E r \in Ranges(cfg, T) : GetRange(T, r[1], r[2])

Next == DoGetBits \/ DoGet \/ DoGetMinmax \/ DoGetMax \/ DoGetRange

Spec == Init /\ [][Next]_vars

-------------------------------------------------------------------------------------------------------------------------------------------------
(* The output stream: runs of get_bits and get on 8- and 16-bit types *)

\* Calls made on one instance of the stream.
StreamCalls == 6

StreamBuilds == {b \in Builds : b.debug} \cup {AvrBuild}
StreamCtors  == {k \in Ctors : k.fn # "default"}

\* get_bits calls drawn in the stream: <<T, bitcount>>
StreamBits == { <<"u16", 3>>, <<"i16", 3>>, <<"u16", 10>> }
StreamGets == {"u8", "u16", "i16"}

InitStream ==
    /\ cfg \in StreamBuilds
    /\ ctor \in StreamCtors
    /\ state = construct(ctor)
    /\ steps = 0
    /\ calls = 0
    /\ call = NoCall
    /\ pre = state
    /\ ret = NoRet
    /\ jump = NoJump

StreamGetBits ==
    /\ calls < StreamCalls
    /\ \E tb \in StreamBits : GetBits(tb[1], tb[2])
StreamGet ==
    /\ calls < StreamCalls
    /\ \E T \in StreamGets : Get(T)

NextStream == StreamGetBits \/ StreamGet

SpecStream == InitStream /\ [][NextStream]_vars

-----
(* The pure functions shr3, new_state, new and default on raw u32 values *)

\* Rounds of shr3 applied to one input.
MaxRounds == 3

\* The u32 inputs: the vectors of tests::test_alg and tests::test_new, and
\* every word with one or two bits set.
AlgInputs ==
    { Hex32(0, 0), Hex32(65535, 65535), Hex32(21845, 21845), Hex32(43690, 43690),
      Hex32(16962, 16962), Hex32(15509, 42508), Hex32(32767, 65535),
      Word(1), Word(42) }
    \cup {{i, j} : i, j \in Mask(32)}

InitAlg ==
    /\ cfg \in Builds \cup {AvrBuild}
    /\ state \in AlgInputs
    /\ ctor = [fn |-> "none", seed |-> state]
    /\ steps = 0
    /\ calls = 0
    /\ call = NoCall
    /\ pre = state
    /\ ret = NoRet
    /\ jump = NoJump

\* shr3(state)
AlgShr3 ==
    /\ steps < MaxRounds
    /\ state' = shr3(cfg.arch, state)
    /\ pre' = state
    /\ steps' = steps + 1
    /\ call' = [NoCall EXCEPT !.op = "shr3"]
    /\ UNCHANGED <<cfg, ctor, calls, ret, jump>>

\* Shr3::new_state(state), Shr3::new(), Shr3::default()
AlgConstruct(k) ==
    /\ ctor.fn = "none"
    /\ steps = 0
    /\ state' = construct(k)
    /\ ctor' = k
    /\ pre' = state
    /\ call' = [NoCall EXCEPT !.op = k.fn]
    /\ UNCHANGED <<cfg, steps, calls, ret, jump>>

AlgNewState == AlgConstruct([fn |-> "new_state", seed |-> state])
AlgNew      == AlgConstruct([fn |-> "new", seed |-> Word(1)])
AlgDefault  == AlgConstruct([fn |-> "default", seed |-> Word(1)])

NextAlg == AlgShr3 \/ AlgNewState \/ AlgNew \/ AlgDefault

SpecAlg == InitAlg /\ [][NextAlg]_vars

---------------------------------------------------------------------------
(* The period: single-bit extractions, and many of them taken as one map *)

\* A round is built from shifts and xor, so the register it leads to from s
\* is the xor of the registers it leads to from the one-bit words of s; the
\* same is true of any number of rounds.  A map is kept as the 32 registers
\* it leads to from the one-bit words.
\* (Table(m) is m, held as its 32 registers and not as the rule giving them.)
Table(m)         == m @@ <<>>
Identity         == Table([i \in 0..31 |-> {i}])
Transition(arch) == Table([i \in 0..31 |-> shr3(arch, {i})])
Apply(m, x)      == {b \in 0..31 : Cardinality({j \in x : b \in m[j]}) % 2 = 1}
Compose(p, q)    == Table([i \in 0..31 |-> Apply(p, q[i])])

\* Single-bit extractions made one by one before rounds are taken together.
MaxDirect == 8

\* 2^32 - 1 is the product of 2^w + 1 for w = 1, 2, 4, 8, 16; the pattern of
\* (2^32 - 1) / (2^w + 1) has the bits i with i mod 2w < w.
CycleLength      == Mask(32)
CycleWidths      == {1, 2, 4, 8, 16}
CycleQuotient(w) == {i \in 0..31 : i % (2 * w) < w}

\* The numbers of rounds looked at: up to MaxDirect, the cycle length, the
\* cycle length divided by each of its prime factors, one and two rounds past
\* the cycle length, and the numbers their binary expansions pass through.
CycleTargets == {CycleLength, {32}, {0, 32}} \cup {CycleQuotient(w) : w \in CycleWidths}
CycleStops   == {Shr(t, k) : t \in CycleTargets, k \in 0..33}
Direct(n)    == n \subseteq 0..4 /\ Val(n) <= MaxDirect
Looked(n)    == IF Direct(n) THEN TRUE ELSE {n, n \cup {0}} \cap CycleStops # {}
CycleTypes   == {"u32", "i32"}

InitCycle ==
    /\ cfg \in StreamBuilds
    /\ ctor \in StreamCtors
    /\ state = construct(ctor)
    /\ steps = 0
    /\ calls = 0
    /\ call = NoCall
    /\ pre = state
    /\ ret = NoRet
    /\ jump = [n |-> {}, m |-> Identity]

\* let _: T = a.get_bits(1)
CycleGetBitsTo(T, n) ==
    /\ Looked(n)
    /\ Returned([NoCall EXCEPT !.op = "get_bits", !.T = T, !.bitcount = 1],
                get_bits(cfg, T, state, 1))
    /\ jump' = [n |-> n, m |-> Compose(Transition(cfg.arch), jump.m)]

CycleGetBits == \E T \in CycleTypes : CycleGetBitsTo(T, wrapping_add(34, jump.n, {0}))

\* As many single-bit extractions again as the instance has gone through.
CycleAheadTo(n, m) ==
    /\ jump.n # {}
    /\ Looked(n)
    /\ jump' = [n |-> n, m |-> m]
    /\ state' = Apply(m, construct(ctor))
    /\ pre' = state
    /\ call' = [NoCall EXCEPT !.op = "ahead"]
    /\ ret' = NoRet
    /\ UNCHANGED <<cfg, ctor, steps, calls>>

CycleAhead == CycleAheadTo(Shl(jump.n, 1, 34), Compose(jump.m, jump.m))

NextCycle == CycleGetBits \/ CycleAhead

SpecCycle == InitCycle /\ [][NextCycle]_vars

---------------------------------------------------------------------------
(* The range mapping on every candidate *)

\* get_minmax is entered with the pairs below; which register yields which
\* candidate is left open, so the first draw gives any pattern of num_bits
\* bits.  The spans are small enough to go through all candidates: 110, 160
\* or 230 (Lo..Hi), 15 (Top..MAXVAL), 0 (Mid..Mid) and, for the 8-bit types,
\* 255 (MINVAL..MAXVAL).
MapPairs(c, T) ==
    { <<Lo(c, T), Hi(c, T)>>, <<Top(c, T), MAXVAL(c, T)>>, <<Mid(c, T), Mid(c, T)>> }
    \cup (IF NUMBITS(c, T) = 8 THEN {<<MINVAL(c, T), MAXVAL(c, T)>>} ELSE {})
MapCtors == {k \in Ctors : k.fn = "new_state"}
Candidates(c, T, min_value, max_value) ==
    SUBSET Mask(fls(NUMBITS(c, T), wrapping_sub(NUMBITS(c, T), to_unsigned(c, T, max_value),
                                                to_unsigned(c, T, min_value))))

InitMap ==
    /\ cfg \in Builds
    /\ ctor \in MapCtors
    /\ state = construct(ctor)
    /\ steps = 0
    /\ calls = 0
    /\ call = NoCall
    /\ pre = state
    /\ ret = NoRet
    /\ jump = NoJump

\* get_minmax(min_value, max_value), the first draw giving `first`
MapGetMinmax(T, min_value, max_value, first) ==
    Finish([NoCall EXCEPT !.op = "get_minmax", !.T = T, !.min = min_value,
                          !.max = max_value, !.first = first],
           get_minmax_given(cfg, T, state, min_value, max_value, first))

MapPair(T, mm) ==
    \E first \in Candidates(cfg, T, mm[1], mm[2]) : MapGetMinmax(T, mm[1], mm[2], first)

DoMapGetMinmax ==
    /\ calls = 0
    /\ \E T \in Types(cfg) : \E mm \in MapPairs(cfg, T) : MapPair(T, mm)

NextMap == DoMapGetMinmax

SpecMap == InitMap /\ [][NextMap]_vars

---------------------------------------------------------------------------
(* The width drawn for a span *)

\* get_max(max_value) is get_minmax(T::MINVAL, max_value), so its span is
\* unsigned(max_value) - unsigned(T::MINVAL): every span is reached by a
\* max_value.  The spans of a width W looked at: 0, 2^k - 1 and 2^k for every
\* k, and 2^k + 1.
Spans(W) == {Mask(k) : k \in 0..W} \cup {{k} : k \in 0..(W - 1)} \cup {{0, k} : k \in 1..(W - 1)}
MaxForSpan(c, T, span) ==
    from_unsigned(c, T, wrapping_add(NUMBITS(c, T), to_unsigned(c, T, MINVAL(c, T)), span))

SpanGetMax(T) ==
    \E span \in Spans(NUMBITS(cfg, T)) : GetMax(T, MaxForSpan(cfg, T, span))

DoSpanGetMax ==
    /\ calls = 0
    /\ \E T \in Types(cfg) : SpanGetMax(T)

NextSpan == DoSpanGetMax

SpecSpan == InitMap /\ [][NextSpan]_vars

---------------------------------------------------------------------------
(* The rejection loop, pass by pass *)

\* Passes of the loop within one call.
MaxDraws == 40

\* get_minmax is entered with the pairs of MapPairs and with the span
\* 2^(NUMBITS - 1), of which hardly more than half of the candidates are
\* accepted.
LoopPairs(c, T) ==
    MapPairs(c, T) \cup {<<MINVAL(c, T), MaxForSpan(c, T, {NUMBITS(c, T) - 1})>>}
LoopBits(c, T) == {0, 5, NUMBITS(c, T)}

\* While call.op = "loop", the instance is inside get_minmax's `loop`.
InLoop == call.op = "loop"

\* One more call may be made, of the output type of the calls before.
LoopCanCall(T) ==
    /\ ~InLoop
    /\ calls <= MaxCalls
    /\ (IF call.op = "none" THEN TRUE ELSE call.T = T)

\* a.get_bits(bitcount), start to end
LoopGetBits ==
    \E T \in Types(cfg) : LoopCanCall(T) /\ \E n \in LoopBits(cfg, T) : GetBits(T, n)

\* get_minmax up to `let value = loop {`
LoopEnterWith(T, min_value, max_value) ==
    /\ Le(cfg, T, min_value, max_value)
    /\ call' = [NoCall EXCEPT !.op = "loop", !.T = T, !.min = min_value, !.max = max_value]
    /\ ret' = NoRet
    /\ pre' = state
    /\ calls' = calls + 1
    /\ UNCHANGED <<state, cfg, ctor, steps, jump>>

LoopEnter ==
    \E T \in Types(cfg) :
        LoopCanCall(T) /\ \E mm \in LoopPairs(cfg, T) : LoopEnterWith(T, mm[1], mm[2])

\* One pass: `let value = self.get_bits(num_bits).to_unsigned()`, then the
\* break out of the loop and the return, or the next pass.
LoopPass(T, range, num_bits, g) ==
    /\ state' = g.state
    /\ steps' = steps + num_bits
    /\ IF minmax_accepts(cfg, T, range, g)
       THEN /\ call' = [call EXCEPT !.op = "get_minmax"]
            /\ ret' = [value |-> minmax_ret(cfg, T, call.min,
                                            [value |-> to_unsigned(cfg, T, g.value)]).value,
                       panicked |-> FALSE, draws |-> ret.draws + 1]
       ELSE /\ call' = call
            /\ ret' = [ret EXCEPT !.draws = @ + 1]
    /\ UNCHANGED <<cfg, ctor, calls, pre, jump>>

LoopDrawOf(T, range, num_bits) ==
    LoopPass(T, range, num_bits, get_bits(cfg, T, state, num_bits))

LoopDraw ==
    /\ InLoop
    /\ ret.draws < MaxDraws
    /\ LoopDrawOf(call.T,
                  wrapping_sub(NUMBITS(cfg, call.T), to_unsigned(cfg, call.T, call.max),
                               to_unsigned(cfg, call.T, call.min)),
                  fls(NUMBITS(cfg, call.T),
                      wrapping_sub(NUMBITS(cfg, call.T), to_unsigned(cfg, call.T, call.max),
                                   to_unsigned(cfg, call.T, call.min))))

InitLoop ==
    /\ cfg \in Builds
    /\ ctor \in StreamCtors
    /\ state = construct(ctor)
    /\ steps = 0
    /\ calls = 0
    /\ call = NoCall
    /\ pre = state
    /\ ret = NoRet
    /\ jump = NoJump

NextLoop == LoopGetBits \/ LoopEnter \/ LoopDraw

SpecLoop == InitLoop /\ [][NextLoop]_vars

---------------------------------------------------------------------------
(* Properties *)

\* C1: the register is never the all-zero pattern: not after new(), default()
\* or new_state(seed), the zero seed included, and not after any sequence of
\* drawing calls (every operation moves the register through get_bits only).
RegisterNeverZero == state # Word(0)

\* An instance seeded with zero whose register a whole stream of calls has
\* advanced.
ZeroSeedAdvanced ==
    /\ ctor.fn = "new_state" /\ ctor.seed = Word(0)
    /\ calls = StreamCalls /\ steps >= 3 * StreamCalls /\ state # pre

\* C2: construction sets the register exactly: new() and default() give 1,
\* new_state(0) gives 0x7FFFFFFF, new_state(seed) gives seed for every
\* other seed.
ConstructionExact ==
    /\ call.op \in {"new", "default"} => state = {0}
    /\ call.op = "new_state" /\ pre = {} => state = 0..30
    /\ call.op = "new_state" /\ pre # {} => state = pre

\* new_state(0) was called and the register is 0x7FFFFFFF.
ZeroSeedReplaced == call.op = "new_state" /\ pre = {} /\ state = 0..30

\* The three steps of the transition, bit by bit: bit i of y ^ (y << k) is
\* y_i xor y_(i-k), bit i of y ^ (y >> k) is y_i xor y_(i+k), within 32 bits.
StepShl(y, k) == {i \in 0..31 : (i \in y) # ((i - k) \in y)}
StepShr(y, k) == {i \in 0..31 : (i \in y) # ((i + k) \in y)}
ThreeSteps(y) == StepShl(StepShr(StepShl(y, 13), 17), 5)

\* The vectors of tests::test_alg: <<input, output>>
AlgVectors ==
    { <<Hex32(0, 0),         Hex32(0, 0)>>,
      <<Hex32(65535, 65535), Hex32(3, 57375)>>,       \* 0xFFFFFFFF -> 0x0003E01F
      <<Hex32(21845, 21845), Hex32(14, 57322)>>,      \* 0x55555555 -> 0x000EDFEA
      <<Hex32(43690, 43690), Hex32(13, 16373)>>,      \* 0xAAAAAAAA -> 0x000D3FF5
      <<Hex32(16962, 16962), Hex32(19274, 61351)>>,   \* 0x42424242 -> 0x4B4AEFA7
      <<Hex32(15509, 42508), Hex32(33496, 9958)>> }   \* 0x3C95A60C -> 0x82D826E6

\* C3: shr3(state) is state ^= state << 13; state ^= state >> 17;
\* state ^= state << 5 on 32 bits, and maps each vector of test_alg to its
\* output.
Shr3IsThreeSteps ==
    call.op = "shr3" =>
        /\ state = ThreeSteps(pre)
        /\ state \subseteq 0..31
        /\ \A v \in AlgVectors : pre = v[1] => state = v[2]

\* shr3(0x3C95A60C) has returned 0x82D826E6.
Shr3VectorSeen ==
    call.op = "shr3" /\ pre = Hex32(15509, 42508) /\ state = Hex32(33496, 9958)

\* C4: the AVR transition gives the same 32-bit result as the portable one
\* on every input, the vectors of test_alg and zero included.
AvrMatchesGeneric ==
    cfg.arch = "avr" /\ call.op = "shr3" => state = generic_shr3(pre)

\* The AVR transition has mapped 0x42424242 to 0x4B4AEFA7.
AvrVectorSeen ==
    /\ cfg.arch = "avr" /\ call.op = "shr3"
    /\ pre = Hex32(16962, 16962) /\ state = Hex32(19274, 61351)

\* The registers shr3(s), shr3(shr3(s)), ..., shr3^n(s), as a sequence.
RECURSIVE Orbit(_, _, _)
OrbitAfter(arch, h, m) == h \o Orbit(arch, h[Len(h)], m)
Orbit(arch, s, n) ==
    IF n = 0 THEN <<>>
    ELSE IF n = 1 THEN <<shr3(arch, s)>>
    ELSE OrbitAfter(arch, Orbit(arch, s, n \div 2), n - (n \div 2))

\* A get_bits(n) call on T entered with register pre has left the register
\* o[n] and returned the sum of lsb(o[i]) * 2^(n-i), o being the orbit of pre.
GetBitsAsReference(T, n, o) ==
    /\ ~ret.panicked
    /\ state = (IF n = 0 THEN pre ELSE o[n])
    /\ ret.value = {n - i : i \in {j \in 1..n : 0 \in o[j]}}
    /\ n = 0 => ret.value = {} /\ state = pre
    /\ n < NUMBITS(cfg, T) => ret.value \subseteq 0..(n - 1)

\* C5: get_bits(n) with 0 <= n <= T's width applies shr3 exactly n times to
\* the register and returns the n least significant bits of the registers it
\* passed, the first as the most significant; n = 0 returns zero and leaves
\* the register; below T's width the result does not depend on T.  get() is
\* get_bits(T's width).
GetBitsMatchesReference ==
    /\ call.op = "get_bits" /\ call.bitcount <= NUMBITS(cfg, call.T) =>
          GetBitsAsReference(call.T, call.bitcount, Orbit(cfg.arch, pre, call.bitcount))
    /\ call.op = "get" =>
          GetBitsAsReference(call.T, NUMBITS(cfg, call.T),
                             Orbit(cfg.arch, pre, NUMBITS(cfg, call.T)))

\* get_bits(127) on i128 has returned a non-zero value.
GetBitsWideSeen ==
    /\ call.op = "get_bits" /\ call.T = "i128" /\ call.bitcount = 127
    /\ ~ret.panicked /\ ret.value # {} /\ state # pre

\* The literal vectors of tests::test_get_bits and tests::test_get (seed 42)
\* and of the crate's doc example (default seed).
Bits3Vector  == <<1, 0, 1, 5, 1, 4>>
Get16Vector  == <<8403, 11356, 10775, 54213, 44808, 40539>>  \* 0x20D3 0x2C5C 0x2A17 0xD3C5 0xAF08 0x9E5B

\* C6: with seed 42 and a 16-bit type, six successive get_bits(3) return
\* 1, 0, 1, 5, 1, 4 and six successive get() return 0x20D3, 0x2C5C, 0x2A17,
\* 0xD3C5, 0xAF08, 0x9E5B; with the default seed, get::<u8>() returns 0xF8
\* and the following get_bits::<u16>(10) returns 0x2CC.  (Every call of the
\* stream takes 3, 8, 10 or 16 rounds, so steps = 3 * calls means that all
\* calls so far were get_bits(3), and steps = 16 * calls that all were
\* 16-bit get().)
StreamVectors ==
    /\ ( /\ ctor.fn = "new_state" /\ ctor.seed = Word(42)
         /\ call.op = "get_bits" /\ call.bitcount = 3 /\ call.T \in {"u16", "i16"}
         /\ steps = 3 * calls /\ calls \in DOMAIN Bits3Vector )
       => ret.value = Word(Bits3Vector[calls])
    /\ ( /\ ctor.fn = "new_state" /\ ctor.seed = Word(42)
         /\ call.op = "get" /\ call.T \in {"u16", "i16"}
         /\ steps = 16 * calls /\ calls \in DOMAIN Get16Vector )
       => ret.value = Word(Get16Vector[calls])
    /\ ( /\ ctor.fn \in {"new", "default"}
         /\ call.op = "get" /\ call.T = "u8" /\ calls = 1 )
       => ret.value = Word(248)
    /\ ( /\ ctor.fn \in {"new", "default"}
         /\ call.op = "get_bits" /\ call.T = "u16" /\ call.bitcount = 10
         /\ calls = 2 /\ steps = 18 )
       => ret.value = Word(716)

\* The sixth get() on i16 after seed 42 has returned 0x9E5B.
SixthGetSeen ==
    /\ ctor.seed = Word(42) /\ call.op = "get" /\ call.T = "i16"
    /\ calls = 6 /\ steps = 96 /\ ret.value = Word(40539)

\* The number a pattern of a type of at most 16 bits stands for.
IntOf(c, T, x) ==
    IF T \in Signed /\ (NUMBITS(c, T) - 1) \in x
    THEN Val(x) - 2 ^ NUMBITS(c, T)
    ELSE Val(x)

\* v lies in min..max: in T's ordering, and as numbers where they fit.
Within(c, T, min, v, max) ==
    /\ v \subseteq Mask(NUMBITS(c, T))
    /\ Le(c, T, min, v) /\ Le(c, T, v, max)
    /\ NUMBITS(c, T) <= 16 =>
          IntOf(c, T, min) <= IntOf(c, T, v) /\ IntOf(c, T, v) <= IntOf(c, T, max)

\* C7: a get_minmax(min, max) call with min <= max in T's ordering returns a
\* value v with min <= v <= max, for signed ranges crossing zero and for the
\* full range of T as well.
MinmaxWithinBounds ==
    call.op = "get_minmax" /\ Le(cfg, call.T, call.min, call.max) =>
        /\ ~ret.panicked
        /\ Within(cfg, call.T, call.min, ret.value, call.max)

\* get_minmax on a signed range crossing zero has returned a negative value
\* after rejecting a draw.
MinmaxSignCrossingSeen ==
    /\ call.op = "get_minmax" /\ call.T \in Signed
    /\ call.min = Lo(cfg, call.T) /\ call.max = Hi(cfg, call.T)
    /\ ~ret.panicked /\ ret.draws > 1
    /\ Lt(cfg, call.T, ret.value, Lit(cfg, call.T, 0))

\* The call returned m at the first draw and left the register as it was.
ReturnedUndrawn(m) ==
    ~ret.panicked /\ ret.value = m /\ ret.draws = 1 /\ state = pre

\* C8: get_minmax(m, m), get_range(m..=m) and get_range(m..m+1) return m on
\* the first draw and leave the register unchanged.
SingleValueRange ==
    /\ call.op = "get_minmax" /\ call.min = call.max => ReturnedUndrawn(call.min)
    /\ ( /\ call.op = "get_range"
         /\ call.start.kind = "Included" /\ call.end.kind = "Included"
         /\ call.start.x = call.end.x )
       => ReturnedUndrawn(call.start.x)
    /\ ( /\ call.op = "get_range"
         /\ call.start.kind = "Included" /\ call.end.kind = "Excluded"
         /\ call.start.x # MAXVAL(cfg, call.T)
         /\ call.end.x = wrapping_add(NUMBITS(cfg, call.T), call.start.x, {0}) )
       => ReturnedUndrawn(call.start.x)

\* get_range(m..m+1) on i128 has returned m.
SingleValueRangeSeen ==
    /\ call.op = "get_range" /\ call.T = "i128"
    /\ call.start = Included(Mid(cfg, "i128")) /\ call.end.kind = "Excluded"
    /\ ret.value = Mid(cfg, "i128") /\ state = pre /\ ~ret.panicked

\* C9: get_max(max_value) with max_value >= 0 returns a value v with
\* 0 <= v <= max_value, for signed and unsigned T.
MaxWithinZeroAndMax ==
    call.op = "get_max" /\ Le(cfg, call.T, Lit(cfg, call.T, 0), call.max) =>
        /\ ~ret.panicked
        /\ Within(cfg, call.T, Lit(cfg, call.T, 0), ret.value, call.max)

\* The inclusive pair a get_range call resolves to, for the notations with an
\* included or no start bound.
ResolvedMin(c, T, start) == IF start.kind = "Included" THEN start.x ELSE MINVAL(c, T)
ResolvedMax(c, T, end) ==
    CASE end.kind = "Included"  -> end.x
      [] end.kind = "Excluded"  -> wrapping_sub(NUMBITS(c, T), end.x, {0})
      [] end.kind = "Unbounded" -> MAXVAL(c, T)

\* The range is one of a..b (a < b), a..=b (a <= b), ..b (b > MINVAL), ..=b,
\* a.. and the unbounded range.
WellFormedRange(c, T, start, end) ==
    /\ start.kind \in {"Included", "Unbounded"}
    /\ end.kind = "Excluded" => Lt(c, T, ResolvedMin(c, T, start), end.x)
    /\ end.kind = "Included" => Le(c, T, ResolvedMin(c, T, start), end.x)

\* The call returned what get_minmax(min, max) returns from register pre, and
\* left the register where get_minmax leaves it.
SameAsMinmax(c, T, m) ==
    ~m.panicked /\ ret.value = m.value /\ ret.draws = m.draws /\ state = m.state

\* C10: get_range resolves a..b, a..=b, ..b, ..=b, a.. and .. to an inclusive
\* pair (an excluded end b becoming b - 1), returns a value inside the range,
\* and moves the register as get_minmax on that pair does.
RangeResolved ==
    call.op = "get_range" /\ WellFormedRange(cfg, call.T, call.start, call.end) =>
        /\ ~ret.panicked
        /\ Within(cfg, call.T, ResolvedMin(cfg, call.T, call.start), ret.value,
                  ResolvedMax(cfg, call.T, call.end))
        /\ call.end.kind = "Excluded" => Lt(cfg, call.T, ret.value, call.end.x)
        /\ SameAsMinmax(cfg, call.T,
               get_minmax(cfg, call.T, pre, ResolvedMin(cfg, call.T, call.start),
                          ResolvedMax(cfg, call.T, call.end)))

\* get_range(a..b) on i64 has drawn bits and returned a value.
RangeHalfOpenSeen ==
    /\ call.op = "get_range" /\ call.T = "i64"
    /\ call.start = Included(Lo(cfg, "i64")) /\ call.end = Excluded(Hi(cfg, "i64"))
    /\ ~ret.panicked /\ state # pre

\* The 32 registers of a map are linearly independent over GF(2): no xor of
\* some of them is zero, so the map sends no two values to the same value.
RECURSIVE Reduce(_, _)
Reduce(v, basis) ==
    IF v = {} THEN v
    ELSE IF Max(v) \in DOMAIN basis THEN Reduce(Xor(v, basis[Max(v)]), basis)
    ELSE v
RECURSIVE Independent(_, _, _)
IndependentWith(m, i, basis, v) ==
    IF v = {} THEN FALSE ELSE Independent(m, i + 1, basis @@ (Max(v) :> v))
Independent(m, i, basis) ==
    IF i = 32 THEN TRUE ELSE IndependentWith(m, i, basis, Reduce(m[i], basis))
Bijective(m) == Independent(m, 0, <<>>)

\* No value but zero is sent to itself: m xor the identity is bijective.
NoValueReturns(m) == Bijective(Table([i \in 0..31 |-> Xor(m[i], {i})]))

\* 2^32 - 1 = 3 * 5 * 17 * 257 * 65537, the factors are prime, and
\* CycleQuotient(w) * (2^w + 1) = 2^32 - 1.
TimesFermat(x, w) == wrapping_add(64, x, Shl(x, w, 64))
CycleFactors ==
    /\ TimesFermat(TimesFermat(TimesFermat(TimesFermat(TimesFermat({0}, 1), 2), 4), 8), 16)
          = CycleLength
    /\ \A w \in CycleWidths :
          /\ TimesFermat(CycleQuotient(w), w) = CycleLength
          /\ \A d \in 2..256 : d * d <= 2 ^ w + 1 => (2 ^ w + 1) % d # 0

\* C11: the transition is a bijection of the 32-bit values and moves the
\* non-zero ones in one cycle of length 2^32 - 1.  After 2^32 - 1 single-bit
\* extractions every register is back at its seed.  After (2^32 - 1) / p
\* extractions, p a prime factor of 2^32 - 1, no non-zero register is back at
\* its seed; the number of extractions after which a register first returns
\* divides 2^32 - 1, so it is 2^32 - 1, and a bijection that returns first
\* after 2^32 - 1 steps takes no value twice before.  The extractions after
\* the cycle repeat the first registers of the stream.  Rounds taken together
\* lead to the register that the rounds lead to one by one.
FullCycle ==
    /\ jump.n = {} => CycleFactors
    /\ jump.n = {0} => jump.m = Transition(cfg.arch) /\ Bijective(jump.m)
    /\ jump.m # <<>> => state = Apply(jump.m, construct(ctor))
    /\ jump.n # {} /\ jump.n \subseteq 0..6 =>
          state = Orbit(cfg.arch, construct(ctor), Val(jump.n))[Val(jump.n)]
    /\ jump.n = CycleLength => jump.m = Identity /\ state = construct(ctor)
    /\ \A w \in CycleWidths :
          jump.n = CycleQuotient(w) => NoValueReturns(jump.m) /\ state # construct(ctor)
    /\ jump.n = {32} => state = shr3(cfg.arch, construct(ctor))
    /\ jump.n = {0, 32} => state = shr3(cfg.arch, shr3(cfg.arch, construct(ctor)))

\* The instance seeded with 42 has gone through 2^32 - 1 single-bit
\* extractions, the last of them a get_bits(1) call, and is back at 42.
CycleClosed ==
    /\ ctor.seed = Word(42) /\ jump.n = CycleLength
    /\ call.op = "get_bits" /\ call.bitcount = 1 /\ state = Word(42) /\ pre # state

\* The last call broke its contract: a bitcount above T's width, max < min,
\* an excluded end at T::MINVAL, or a range a..b that resolves to max < min.
\* (Ranges with an excluded start bound are not among the notations looked
\* at here.)
BrokeContract ==
    CASE call.op = "get_bits"   -> call.bitcount > NUMBITS(cfg, call.T)
      [] call.op = "get_minmax" -> Lt(cfg, call.T, call.max, call.min)
      [] call.op = "get_range"  ->
            IF call.end.kind = "Excluded"
            THEN ~Lt(cfg, call.T, ResolvedMin(cfg, call.T, call.start), call.end.x)
            ELSE Lt(cfg, call.T, ResolvedMax(cfg, call.T, call.end),
                    ResolvedMin(cfg, call.T, call.start))
      [] OTHER                  -> FALSE

\* C12: in a build with debug assertions, a call that breaks its contract
\* (get_bits with bitcount above T's width, get_minmax or a resolved
\* get_range with max < min, get_range with an excluded end at T::MINVAL)
\* panics and leaves the register as it was; a call that keeps its contract
\* does not panic.
ViolationsAbort ==
    ( /\ cfg.debug
      /\ call.op \in {"get_bits", "get", "get_minmax", "get_max", "get_range"}
      /\ call.start.kind # "Excluded" )
    => IF BrokeContract THEN ret.panicked /\ state = pre /\ ret.draws = 0
       ELSE ~ret.panicked

\* get_range(a..a) has panicked in a debug build, the register as before.
EmptyRangeAborted ==
    /\ cfg.debug /\ call.op = "get_range"
    /\ call.start.kind = "Included" /\ call.end = Excluded(call.start.x)
    /\ ret.panicked /\ state = pre

\* The span of the last get_minmax call, the width covering it, and the
\* register after the first draw of that width.
SpanOf      == wrapping_sub(NUMBITS(cfg, call.T), call.max, call.min)
WidthOf(sp) == IF sp = {} THEN 0 ELSE Max(sp) + 1
AfterDraw(nb) == IF nb = 0 THEN pre ELSE Orbit(cfg.arch, pre, nb)[nb]

\* The call ended as the call m entered after the first draw, one draw later.
SameAsLater(m) ==
    ~m.panicked /\ ret.value = m.value /\ ret.draws = m.draws + 1 /\ state = m.state

\* The values of an 8-bit T from min to max, in T's ordering.
Values8(T, min, max) == {v \in SUBSET Mask(8) : Le(cfg, T, min, v) /\ Le(cfg, T, v, max)}

\* A get_minmax(min, max) call on T with span sp, drawing nb bits at a time,
\* whose first draw gave the candidate `first`.
MapChecked(T, min, max, sp, nb, first) ==
    /\ ~ret.panicked
    /\ sp \subseteq Mask(nb) /\ first \subseteq Mask(nb)
    /\ nb = fls(NUMBITS(cfg, T), sp)
    /\ (ret.draws = 1) <=> (Val(first) <= Val(sp))
    /\ ret.draws = 1 =>
          /\ ret.value = wrapping_add(NUMBITS(cfg, T), min, first)
          /\ wrapping_sub(NUMBITS(cfg, T), ret.value, min) = first
          /\ Within(cfg, T, min, ret.value, max)
          /\ state = AfterDraw(nb)
    /\ ret.draws # 1 => SameAsLater(get_minmax(cfg, T, AfterDraw(nb), min, max))
    /\ first = {} =>
          Cardinality({c \in SUBSET Mask(nb) : Val(c) <= Val(sp)}) = Val(sp) + 1
    /\ first = {} /\ NUMBITS(cfg, T) = 8 =>
          /\ Cardinality(Values8(T, min, max)) = Val(sp) + 1
          /\ \A v \in Values8(T, min, max) :
                get_minmax_given(cfg, T, pre, min, max, wrapping_sub(8, v, min)).value = v

\* C13: with span = unsigned(max) - unsigned(min) and num_bits = fls(span),
\* a candidate is accepted exactly if it is one of 0..span, all of which fit
\* in num_bits bits; an accepted candidate c gives from_unsigned(unsigned(min)
\* + c), from which c is recovered by subtracting min, so the accepted
\* candidates map one-to-one onto min..max (span + 1 values, each reached);
\* a rejected candidate is dropped and the call returns what the next draws
\* give, without reducing it into the range.
RangeMappingUnbiased ==
    call.op = "get_minmax" /\ Le(cfg, call.T, call.min, call.max) =>
        MapChecked(call.T, call.min, call.max, SpanOf, WidthOf(SpanOf), call.first)

\* The candidate equal to the span has been accepted on i64 and has given max.
MapTopCandidateSeen ==
    /\ call.op = "get_minmax" /\ call.T = "i64"
    /\ call.min = Lo(cfg, "i64") /\ call.max = Hi(cfg, "i64")
    /\ call.first = SpanOf /\ ret.draws = 1 /\ ret.value = call.max

\* The bits a get_max call drew per pass of its loop: all its rounds, divided
\* by the passes.  (calls = 1: the rounds counted are those of this call.)
BitsPerDraw == steps \div ret.draws

\* The span of the last get_max call.
MaxSpanOf == wrapping_sub(NUMBITS(cfg, call.T), call.max, MINVAL(cfg, call.T))

\* C14: the loop draws num_bits = fls(span) bits per pass, the least width
\* covering the span: 2^(num_bits - 1) <= span < 2^num_bits for a span above
\* zero (its highest set bit is bit num_bits - 1), so more than half of the
\* 2^num_bits candidates are at most the span; for span 0, num_bits is 0.
MinimalWidth ==
    call.op = "get_max" /\ calls = 1 /\ ~ret.panicked =>
        /\ steps = BitsPerDraw * ret.draws
        /\ BitsPerDraw = fls(NUMBITS(cfg, call.T), MaxSpanOf)
        /\ MaxSpanOf = {} => BitsPerDraw = 0
        /\ MaxSpanOf # {} =>
              /\ BitsPerDraw \in 1..NUMBITS(cfg, call.T)
              /\ (BitsPerDraw - 1) \in MaxSpanOf
              /\ \A i \in MaxSpanOf : i < BitsPerDraw
              /\ BitsPerDraw <= 16 =>
                    /\ 2 ^ (BitsPerDraw - 1) <= Val(MaxSpanOf)
                    /\ Val(MaxSpanOf) < 2 ^ BitsPerDraw
                    /\ 2 * (Val(MaxSpanOf) + 1) > 2 ^ BitsPerDraw

\* A get_max call on u128 with span 2^100 has drawn 101 bits per pass.
PowerOfTwoSpanSeen ==
    /\ call.op = "get_max" /\ call.T = "u128" /\ call.max = {100}
    /\ ~ret.panicked /\ BitsPerDraw = 101

\* The register n rounds after s.
Rounds(s, n) == IF n = 0 THEN s ELSE Orbit(cfg.arch, s, n)[n]

\* A pass of the loop applies exactly num_bits rounds, accepted or not.
PassAdvances ==
    InLoop =>
        /\ steps' = steps + WidthOf(SpanOf)
        /\ state' = Rounds(state, WidthOf(SpanOf))
        /\ ret'.draws = ret.draws + 1

\* A get_bits(bitcount) call applies exactly bitcount rounds.
GetBitsAdvances ==
    call'.op = "get_bits" /\ calls' = calls + 1 /\ ~ret'.panicked =>
        /\ steps' = steps + call'.bitcount
        /\ state' = Rounds(state, call'.bitcount)

\* A get_minmax call that has returned ended as the call made in one piece.
ReturnedAsWhole ==
    call.op = "get_minmax" => SameAsMinmax(cfg, call.T, get_minmax(cfg, call.T, pre, call.min, call.max))

\* A call inside the loop has a pass left to take: the loop has not gone
\* through MaxDraws passes without accepting a candidate.
PassLeft == InLoop => ret.draws < MaxDraws

\* C15: every operation terminates.  get_bits (and get, which is get_bits of
\* T's width) applies exactly bitcount rounds.  A get_minmax call with
\* min <= max that has entered its loop returns, within MaxDraws passes;
\* every pass of the loop, rejected ones included, moves the register by
\* exactly num_bits rounds.
EveryCallTerminates ==
    /\ [][PassAdvances /\ GetBitsAdvances]_vars
    /\ []ReturnedAsWhole
    /\ []PassLeft

\* A get_minmax call has returned after two rejected passes.
ReturnedAfterRejections ==
    /\ call.op = "get_minmax" /\ ret.draws >= 3 /\ ~ret.panicked
    /\ steps >= 3 * WidthOf(SpanOf)

\* The range has an excluded start x and holds a value: x < y for (x, y],
\* x + 1 < y for (x, y), x < MAXVAL for (x, ..).
ExcludedStartRange(c, T, start, end) ==
    /\ start.kind = "Excluded"
    /\ Lt(c, T, start.x, MAXVAL(c, T))
    /\ end.kind = "Included" => Lt(c, T, start.x, end.x)
    /\ end.kind = "Excluded" =>
           Lt(c, T, wrapping_add(NUMBITS(c, T), start.x, {0}), end.x)

\* C16: get_range on a range with an excluded start x that holds a value
\* returns a value strictly greater than x, and within the end bound.
ExcludedStartRespected ==
    call.op = "get_range" /\ ExcludedStartRange(cfg, call.T, call.start, call.end) =>
        /\ ~ret.panicked
        /\ Lt(cfg, call.T, call.start.x, ret.value)
        /\ call.end.kind = "Included" => Le(cfg, call.T, ret.value, call.end.x)
        /\ call.end.kind = "Excluded" => Lt(cfg, call.T, ret.value, call.end.x)

=============================================================================
